---- MODULE Spec2Model ----
(***************************************************************************)
(* Model of web/fal_key_manager.js: the localStorage credential store,     *)
(* pushActiveKeyToServer, the app.queuePrompt hook, the manage-keys dialog *)
(* and the key_selector widget refresh.                                    *)
(*                                                                         *)
(* A JavaScript object is a sequence of [name, val] records in property    *)
(* order (Object.keys order for non-index string keys is insertion order). *)
(* Reading a property that is not an own property falls through to         *)
(* Object.prototype, which is why "constructor" and "__proto__" are part   *)
(* of the universe of names.                                               *)
(*                                                                         *)
(* SpecUI runs the nodes, the selector and the dialog from an empty         *)
(* storage; SpecHook runs setup() and app.queuePrompt over every storage    *)
(* SpecUI can leave behind; Spec is all handlers together.                  *)
(***************************************************************************)
EXTENDS Integers, Sequences, FiniteSets, TLC

\* ---- bounds ----
MaxCalls == 2      \* invocations of app.queuePrompt
MaxSetup == 2      \* calls of setup()
MaxNodes == 2      \* nodes created on the graph

Calls == 1..MaxCalls
Nodes == 1..MaxNodes

\* ---- program constants ----
KEYS_STORAGE == "fal_api_keys"
ACTIVE_STORAGE == "fal_active_key_name"
NoKeys == "(no keys)"
SetKeyRoute == "/fal-api/set-key"
NodeClass == "FalApiKeyManager"

\* ---- JavaScript values that are not strings of the program ----
Null == "<null>"
Undefined == "<undefined>"
ObjectFunction == "<function Object>"
ObjectPrototype == "<Object.prototype>"

\* ---- inputs ----
RawNames == {"", " ", " a ", "constructor", "__proto__"}
RawSecrets == {"", "k1", " k2 "}
QueueArgs == {"x1", "x2"}
QueueResults == {"r1", "r2"}

\* trim that returns its argument
TrimNothing(s) == s

\* String.prototype.trim on the inputs above
Trim(s) ==
  CASE s = " " -> ""
    [] s = " a " -> "a"
    [] s = " k2 " -> "k2"
    [] OTHER -> s

\* a value in a boolean context (!x is ~Truthy(x))
Truthy(v) == v \notin {Undefined, Null, ""}

\* ---- plain objects ----
ObjKeys(o) == [i \in 1..Len(o) |-> o[i].name]
HasOwn(o, n) == \E i \in 1..Len(o) : o[i].name = n
OwnIndex(o, n) == CHOOSE i \in 1..Len(o) : o[i].name = n
Includes(s, x) == \E i \in 1..Len(s) : s[i] = x

\* o[n] as an rvalue: own property, else the property of Object.prototype
ObjGet(o, n) ==
  IF HasOwn(o, n) THEN o[OwnIndex(o, n)].val
  ELSE IF n = "constructor" THEN ObjectFunction
  ELSE IF n = "__proto__" THEN ObjectPrototype
  ELSE Undefined

\* o[n] = v with v a string: an own property is overwritten in place, the
\* __proto__ setter ignores a value that is not an object, anything else is
\* appended as a new own property
ObjSet(o, n, v) ==
  IF HasOwn(o, n) THEN [o EXCEPT ![OwnIndex(o, n)].val = v]
  ELSE IF n = "__proto__" THEN o
  ELSE Append(o, [name |-> n, val |-> v])

\* delete o[n]
ObjDelete(o, n) == SelectSeq(o, LAMBDA e : e.name # n)

\* JSON.stringify of a name -> string object and JSON.parse of its text; the
\* text is the sequence of "name":"value" members in property order
JSONstringify(o) == [i \in 1..Len(o) |-> <<o[i].name, o[i].val>>]
JSONparse(t) == [i \in 1..Len(t) |-> [name |-> t[i][1], val |-> t[i][2]]]

\* JSON.stringify({ key, name }): a function-valued property is omitted,
\* an object without own enumerable properties prints as {}
RequestBody(key, name) ==
  [key |-> IF key = ObjectFunction THEN Undefined
           ELSE IF key = ObjectPrototype THEN "{}"
           ELSE key,
   name |-> name]

\* ---- localStorage helpers ----
\* an item is [null |-> TRUE] when localStorage.getItem returns null
NullKeysItem == [null |-> TRUE, text |-> <<>>]
NullActiveItem == [null |-> TRUE, text |-> ""]

\* JSON.parse(null) is null, and null || {} is {}
loadKeys(ls) ==
  IF ls[KEYS_STORAGE].null THEN <<>> ELSE JSONparse(ls[KEYS_STORAGE].text)

saveKeys(ls, keys) ==
  [ls EXCEPT ![KEYS_STORAGE] = [null |-> FALSE, text |-> JSONstringify(keys)]]

getActiveKeyName(ls) ==
  IF ls[ACTIVE_STORAGE].null THEN "" ELSE ls[ACTIVE_STORAGE].text

setActiveKeyName(ls, name) ==
  [ls EXCEPT ![ACTIVE_STORAGE] = [null |-> FALSE, text |-> name]]

\* ---- pushActiveKeyToServer ----
\* the requests the synchronous part of pushActiveKeyToServer hands to
\* api.fetchApi: none when keys[name] is falsy, else one POST
pushActiveKeyToServer(ls) ==
  LET name == getActiveKeyName(ls)
      keys == loadKeys(ls)
      key == ObjGet(keys, name)
  IN IF ~Truthy(key) THEN <<>>
     ELSE <<[url |-> SetKeyRoute, method |-> "POST", body |-> RequestBody(key, name)]>>

\* ---- refreshNodeWidgets / nodeCreated: the key_selector combo ----
NoCombo == [state |-> "none", options |-> <<>>, value |-> ""]

SelectorOptions(ls) ==
  LET names == ObjKeys(loadKeys(ls))
  IN IF Len(names) # 0 THEN names ELSE <<NoKeys>>

SelectorValue(ls) ==
  LET names == ObjKeys(loadKeys(ls))
      active == getActiveKeyName(ls)
  IN IF Includes(names, active) THEN active ELSE SelectorOptions(ls)[1]

\* a refresh that recomputes the options and keeps a value it already shows
\* when the active name is not an entry
refreshKeepsValue(w, ls) ==
  IF w.state = "combo"
  THEN [state |-> "combo", options |-> SelectorOptions(ls),
        value |-> IF Includes(ObjKeys(loadKeys(ls)), getActiveKeyName(ls))
                  THEN getActiveKeyName(ls) ELSE w.value]
  ELSE w

refreshNodeWidgets(w, ls) ==
  IF w.state = "combo"
  THEN [state |-> "combo", options |-> SelectorOptions(ls), value |-> SelectorValue(ls)]
  ELSE w

VARIABLES
  localStorage,  \* the two storage items
  hooked,        \* the module-level flag of installQueueHook
  wrapDepth,     \* number of wrappers around the host's queuePrompt
  setups,        \* calls of setup() so far
  inv,           \* per invocation of app.queuePrompt: its progress
  net,           \* invocations whose awaited api.fetchApi request is in flight
  microQ,        \* invocations whose awaited push promise has settled
  widget,        \* per node: the key_selector combo
  dlg,           \* the manage-keys dialog
  last           \* what the last handler did

vars == <<localStorage, hooked, wrapDepth, setups, inv, net, microQ, widget, dlg, last>>

\* ---- initial state: first page load, empty storage, nothing hooked ----
IdleCall ==
  [pc |-> "idle", wrapped |-> 0, depth |-> 0, args |-> "", pushes |-> 0,
   pushesDone |-> 0, requests |-> 0, rejected |-> FALSE, origCalls |-> 0,
   origArgs |-> "", origRet |-> "", ret |-> "", awaited |-> TRUE,
   overlap |-> FALSE, hadKey |-> FALSE]

ClosedDialog == [open |-> FALSE, node |-> 0, rows |-> <<>>]

\* op: the handler that ran; pushed: it called pushActiveKeyToServer;
\* sent: the requests that call handed to api.fetchApi
Did(op, pushed, sent) ==
  [op |-> op, pushed |-> pushed, sent |-> sent,
   rawName |-> "", rawKey |-> "", n |-> "", k |-> ""]

\* a dialog handler: the text of the two input fields (add) and the name and
\* secret the handler worked with
DidEdit(op, rawName, rawKey, n, k) ==
  [op |-> op, pushed |-> FALSE, sent |-> <<>>,
   rawName |-> rawName, rawKey |-> rawKey, n |-> n, k |-> k]

\* the active name is an entry of the stored set
ActiveCredentialPresent(ls) == HasOwn(loadKeys(ls), getActiveKeyName(ls))

Init ==
  /\ localStorage = [k \in {KEYS_STORAGE, ACTIVE_STORAGE} |->
                       IF k = KEYS_STORAGE THEN NullKeysItem ELSE NullActiveItem]
  /\ hooked = FALSE
  /\ wrapDepth = 0
  /\ setups = 0
  /\ inv = [i \in Calls |-> IdleCall]
  /\ net = {}
  /\ microQ = <<>>
  /\ widget = [nd \in Nodes |-> NoCombo]
  /\ dlg = ClosedDialog
  /\ last = Did("init", FALSE, <<>>)

\* a macrotask (UI event, network callback, host lifecycle call) starts only
\* when the microtask queue has drained
MacrotaskMayRun == microQ = <<>>

\* ---- installQueueHook / setup ----
\* an install without the hooked guard
installQueueHookUnguarded ==
  /\ hooked' = TRUE
  /\ wrapDepth' = wrapDepth + 1

installQueueHook ==
  IF hooked
  THEN UNCHANGED <<hooked, wrapDepth>>
  ELSE /\ hooked' = TRUE
       /\ wrapDepth' = wrapDepth + 1

Setup ==
  /\ MacrotaskMayRun
  /\ setups < MaxSetup
  /\ setups' = setups + 1
  /\ installQueueHook
  /\ last' = Did("setup", FALSE, <<>>)
  /\ UNCHANGED <<localStorage, inv, net, microQ, widget, dlg>>

\* ---- app.queuePrompt ----
\* the host's original queuePrompt: called with the arguments, returns r
origQueue(rec, r) ==
  [rec EXCEPT !.pc = "done", !.origCalls = @ + 1, !.origArgs = rec.args,
              !.origRet = r, !.ret = r,
              !.awaited = (rec.pushes = rec.pushesDone)]

\* a wrapper that starts the push and calls the wrapped function at once
queuePromptHookNoAwait(i, rec, q, r) ==
  LET sent == pushActiveKeyToServer(localStorage)
      started == [rec EXCEPT !.pushes = @ + 1,
                             !.pushesDone = IF sent = <<>> THEN @ + 1 ELSE @,
                             !.requests = @ + Len(sent)]
  IN /\ inv' = [inv EXCEPT ![i] = origQueue(started, r)]
     /\ microQ' = q
     /\ net' = IF sent = <<>> THEN net ELSE net \cup {i}
     /\ last' = Did("queuePrompt", TRUE, sent)

\* a wrapper that sends nothing of its own while another push is in flight
queuePromptHookCoalesced(i, rec, q, r) ==
  LET busy == \E j \in Calls : inv[j].pc = "fetching"
      sent == IF busy THEN <<>> ELSE pushActiveKeyToServer(localStorage)
  IN /\ IF sent = <<>>
        THEN /\ inv' = [inv EXCEPT ![i] = [rec EXCEPT !.pc = "settled",
                                                     !.pushes = @ + 1,
                                                     !.pushesDone = @ + 1]]
             /\ microQ' = Append(q, i)
             /\ net' = net
        ELSE /\ inv' = [inv EXCEPT ![i] = [rec EXCEPT !.pc = "fetching",
                                                     !.pushes = @ + 1,
                                                     !.requests = @ + Len(sent)]]
             /\ microQ' = q
             /\ net' = net \cup {i}
     /\ last' = Did("queuePrompt", TRUE, sent)

\* one wrapper layer up to its await: the synchronous part of
\* pushActiveKeyToServer runs, then the wrapper waits for the push promise
queuePromptHook(i, rec, q, r) ==
  LET sent == pushActiveKeyToServer(localStorage)
  IN /\ IF sent = <<>>
        THEN /\ inv' = [inv EXCEPT ![i] = [rec EXCEPT !.pc = "settled",
                                                     !.pushes = @ + 1,
                                                     !.pushesDone = @ + 1]]
             /\ microQ' = Append(q, i)
             /\ net' = net
        ELSE /\ inv' = [inv EXCEPT ![i] = [rec EXCEPT !.pc = "fetching",
                                                     !.pushes = @ + 1,
                                                     !.requests = @ + Len(sent)]]
             /\ microQ' = q
             /\ net' = net \cup {i}
     /\ last' = Did("queuePrompt", TRUE, sent)

\* calling app.queuePrompt (or a wrapper calling the function it wrapped)
\* with rec.depth wrapper layers still around the original
CallQueuePrompt(i, rec, q, r) ==
  IF rec.depth = 0
  THEN /\ inv' = [inv EXCEPT ![i] = origQueue(rec, r)]
       /\ microQ' = q
       /\ net' = net
       /\ last' = Did("origQueue", FALSE, <<>>)
  ELSE queuePromptHook(i, rec, q, r)

QueuePrompt(i, args) ==
  /\ inv[i].pc = "idle"
  /\ \A j \in Calls : j < i => inv[j].pc # "idle"
  /\ \E r \in (IF wrapDepth = 0 THEN QueueResults ELSE {""}) :
       CallQueuePrompt(i, [inv[i] EXCEPT !.args = args, !.wrapped = wrapDepth,
                                         !.depth = wrapDepth,
                                         !.overlap = (\E j \in Calls : inv[j].pc = "fetching"),
                                         !.hadKey = ActiveCredentialPresent(localStorage)],
                       microQ, r)
  /\ UNCHANGED <<localStorage, hooked, wrapDepth, setups, widget, dlg>>

\* the continuation after "await pushActiveKeyToServer()":
\* return origQueue(...args)
Resume(i) ==
  /\ microQ # <<>>
  /\ Head(microQ) = i
  /\ \E r \in (IF inv[i].depth = 1 THEN QueueResults ELSE {""}) :
       CallQueuePrompt(i, [inv[i] EXCEPT !.depth = @ - 1], Tail(microQ), r)
  /\ UNCHANGED <<localStorage, hooked, wrapDepth, setups, widget, dlg>>

\* a push without the try/catch: a rejected fetch rejects the push promise and
\* with it the wrapper, which never reaches the wrapped function
FetchSettleNoCatch(i, ok) ==
  /\ MacrotaskMayRun
  /\ i \in net
  /\ net' = net \ {i}
  /\ inv' = [inv EXCEPT ![i].pushesDone = @ + 1,
                        ![i].rejected = (@ \/ ~ok),
                        ![i].pc = IF @ = "fetching"
                                  THEN (IF ok THEN "settled" ELSE "failed")
                                  ELSE @]
  /\ microQ' = IF inv[i].pc = "fetching" /\ ok THEN Append(microQ, i) ELSE microQ
  /\ last' = Did(IF ok THEN "fetchResolved" ELSE "fetchRejected", FALSE, <<>>)
  /\ UNCHANGED <<localStorage, hooked, wrapDepth, setups, widget, dlg>>

\* the api.fetchApi call of invocation i settles; a rejection is caught and
\* logged inside pushActiveKeyToServer, so the push promise resolves either way
FetchSettle(i, ok) ==
  /\ MacrotaskMayRun
  /\ i \in net
  /\ net' = net \ {i}
  /\ inv' = [inv EXCEPT ![i].pushesDone = @ + 1,
                        ![i].rejected = (@ \/ ~ok),
                        ![i].pc = IF @ = "fetching" THEN "settled" ELSE @]
  /\ microQ' = IF inv[i].pc = "fetching" THEN Append(microQ, i) ELSE microQ
  /\ last' = Did(IF ok THEN "fetchResolved" ELSE "fetchRejected", FALSE, <<>>)
  /\ UNCHANGED <<localStorage, hooked, wrapDepth, setups, widget, dlg>>

\* ---- nodeCreated ----
\* nodeCreated(node) for a node whose comfyClass is FalApiKeyManager (for any
\* other class the callback returns at once). The push it starts is not
\* awaited: nothing of the program depends on how its request settles, so the
\* request is recorded in last.sent and not in net
NodeCreated(nd) ==
  /\ MacrotaskMayRun
  /\ widget[nd].state = "none"
  /\ \A m \in Nodes : m < nd => widget[m].state # "none"
  /\ LET keys == loadKeys(localStorage)
         active == getActiveKeyName(localStorage)
         pushes == Truthy(active) /\ Truthy(ObjGet(keys, active))
         sent == IF pushes THEN pushActiveKeyToServer(localStorage) ELSE <<>>
     IN /\ widget' = [widget EXCEPT ![nd] =
                        [state |-> "combo",
                         options |-> SelectorOptions(localStorage),
                         value |-> SelectorValue(localStorage)]]
        /\ last' = Did("nodeCreated", pushes, sent)
  /\ UNCHANGED <<localStorage, hooked, wrapDepth, setups, inv, net, microQ, dlg>>

\* the user picks option v of the key_selector combo of node nd: the host
\* sets the widget's value and calls the callback given to addWidget
SelectKey(nd, v) ==
  /\ MacrotaskMayRun
  /\ ~dlg.open
  /\ widget[nd].state = "combo"
  /\ Includes(widget[nd].options, v)
  /\ widget' = [widget EXCEPT ![nd].value = v]
  /\ localStorage' = IF Truthy(v) /\ v # NoKeys
                     THEN setActiveKeyName(localStorage, v)
                     ELSE localStorage
  /\ last' = Did("select", FALSE, <<>>)
  /\ UNCHANGED <<hooked, wrapDepth, setups, inv, net, microQ, dlg>>

\* ---- manage-keys dialog ----
\* render(): one row with a Remove button per stored name
render(ls, node) == [open |-> TRUE, node |-> node, rows |-> ObjKeys(loadKeys(ls))]

\* the manage_keys button of node nd
ShowManageKeysDialog(nd) ==
  /\ MacrotaskMayRun
  /\ ~dlg.open
  /\ widget[nd].state = "combo"
  /\ dlg' = render(localStorage, nd)
  /\ last' = Did("open", FALSE, <<>>)
  /\ UNCHANGED <<localStorage, hooked, wrapDepth, setups, inv, net, microQ, widget>>

CloseDialog ==
  /\ MacrotaskMayRun
  /\ dlg.open
  /\ dlg' = ClosedDialog
  /\ last' = Did("close", FALSE, <<>>)
  /\ UNCHANGED <<localStorage, hooked, wrapDepth, setups, inv, net, microQ, widget>>

\* a remove that leaves the active name alone
RemoveKeyKeepsActive(n) ==
  /\ MacrotaskMayRun
  /\ dlg.open
  /\ Includes(dlg.rows, n)
  /\ LET updated == ObjDelete(loadKeys(localStorage), n)
         ls == saveKeys(localStorage, updated)
     IN /\ localStorage' = ls
        /\ dlg' = render(ls, dlg.node)
        /\ widget' = [widget EXCEPT ![dlg.node] = refreshNodeWidgets(@, ls)]
  /\ last' = DidEdit("remove", "", "", n, "")
  /\ UNCHANGED <<hooked, wrapDepth, setups, inv, net, microQ>>

\* del.onclick of the row of n
RemoveKey(n) ==
  /\ MacrotaskMayRun
  /\ dlg.open
  /\ Includes(dlg.rows, n)
  /\ LET updated == ObjDelete(loadKeys(localStorage), n)
         saved == saveKeys(localStorage, updated)
         ls == IF getActiveKeyName(saved) = n THEN setActiveKeyName(saved, "") ELSE saved
     IN /\ localStorage' = ls
        /\ dlg' = render(ls, dlg.node)
        /\ widget' = [widget EXCEPT ![dlg.node] = refreshNodeWidgets(@, ls)]
  /\ last' = DidEdit("remove", "", "", n, "")
  /\ UNCHANGED <<hooked, wrapDepth, setups, inv, net, microQ>>

\* addBtn.onclick with the two input fields holding rawName and rawKey
AddKey(rawName, rawKey) ==
  /\ MacrotaskMayRun
  /\ dlg.open
  /\ LET n == Trim(rawName)
         k == Trim(rawKey)
     IN IF ~Truthy(n) \/ ~Truthy(k)
        THEN /\ UNCHANGED <<localStorage, dlg, widget>>
             /\ last' = DidEdit("addRejected", rawName, rawKey, n, k)
        ELSE LET updated == ObjSet(loadKeys(localStorage), n, k)
                 ls == saveKeys(localStorage, updated)
             IN /\ localStorage' = ls
                /\ dlg' = render(ls, dlg.node)
                /\ widget' = [widget EXCEPT ![dlg.node] = refreshNodeWidgets(@, ls)]
                /\ last' = DidEdit("add", rawName, rawKey, n, k)
  /\ UNCHANGED <<hooked, wrapDepth, setups, inv, net, microQ>>

Next ==
  \/ Setup
  \/ \E i \in Calls, args \in QueueArgs : QueuePrompt(i, args)
  \/ \E i \in Calls : Resume(i)
  \/ \E i \in net, ok \in BOOLEAN : FetchSettle(i, ok)
  \/ \E nd \in Nodes : NodeCreated(nd)
  \/ \E nd \in Nodes : \E v \in {widget[nd].options[j] : j \in 1..Len(widget[nd].options)} : SelectKey(nd, v)
  \/ \E nd \in Nodes : ShowManageKeysDialog(nd)
  \/ CloseDialog
  \/ \E n \in {dlg.rows[j] : j \in 1..Len(dlg.rows)} : RemoveKey(n)
  \/ \E rawName \in RawNames, rawKey \in RawSecrets : AddKey(rawName, rawKey)

Spec == Init /\ [][Next]_vars

\* the nodes, their selector and the dialog alone, the hook left uninstalled
NextUI ==
  \/ \E nd \in Nodes : NodeCreated(nd)
  \/ \E nd \in Nodes : \E v \in {widget[nd].options[j] : j \in 1..Len(widget[nd].options)} : SelectKey(nd, v)
  \/ \E nd \in Nodes : ShowManageKeysDialog(nd)
  \/ CloseDialog
  \/ \E n \in {dlg.rows[j] : j \in 1..Len(dlg.rows)} : RemoveKey(n)
  \/ \E rawName \in RawNames, rawKey \in RawSecrets : AddKey(rawName, rawKey)

SpecUI == Init /\ [][NextUI]_vars

\* ---- a later page load ----
\* localStorage outlives the page: a page load starts with the in-memory state
\* of Init and with the storage an earlier session left behind. These are the
\* storages SpecUI reaches: StorageIsPersisted is an invariant of SpecUI, and
\* SpecUI reaches each member of PersistedStorages with two nodes (an active
\* name that is no entry comes from the selector of a node the dialog is not
\* bound to, whose options are not refreshed when an entry is removed).
\* pushActiveKeyToServer reads the storage only in its synchronous part, so
\* SpecHook runs the hook over every such storage.
StoredNames == {"a", "constructor"}
StoredSecrets == {"k1", "k2"}
StoredObjects ==
  {o \in UNION {[1..m -> [name : StoredNames, val : StoredSecrets]] : m \in 0..Cardinality(StoredNames)} :
     \A i, j \in 1..Len(o) : i # j => o[i].name # o[j].name}

PersistedStorages ==
  {[k \in {KEYS_STORAGE, ACTIVE_STORAGE} |->
      IF k = KEYS_STORAGE THEN NullKeysItem ELSE NullActiveItem]}
  \cup {[k \in {KEYS_STORAGE, ACTIVE_STORAGE} |->
           IF k = KEYS_STORAGE THEN [null |-> FALSE, text |-> JSONstringify(o)] ELSE a] :
         o \in StoredObjects,
         a \in {NullActiveItem} \cup {[null |-> FALSE, text |-> t] : t \in {""} \cup StoredNames}}

InitLoaded ==
  /\ localStorage \in PersistedStorages
  /\ hooked = FALSE
  /\ wrapDepth = 0
  /\ setups = 0
  /\ inv = [i \in Calls |-> IdleCall]
  /\ net = {}
  /\ microQ = <<>>
  /\ widget = [nd \in Nodes |-> NoCombo]
  /\ dlg = ClosedDialog
  /\ last = Did("init", FALSE, <<>>)

\* the submission hook over a loaded page
NextHook ==
  \/ Setup
  \/ \E i \in Calls, args \in QueueArgs : QueuePrompt(i, args)
  \/ \E i \in Calls : Resume(i)
  \/ \E i \in net, ok \in BOOLEAN : FetchSettle(i, ok)

SpecHook == InitLoaded /\ [][NextHook]_vars

\* every storage of a loaded page is one the dialog and the selector produce
StorageIsPersisted == localStorage \in PersistedStorages

\* ======================= properties =======================
Keys == loadKeys(localStorage)
Active == getActiveKeyName(localStorage)
AllNames == StoredNames \cup {"__proto__", " ", ""}
Blank == {"", " "}
Done(i) == inv[i].pc = "done"
Wrapped(i) == inv[i].wrapped >= 1

\* C1: in every invocation of the wrapped app.queuePrompt the original
\* submission function is called only once the push that invocation started
\* has completed, whatever the push did; until then it has not been called.
C1_PushBeforeOriginal ==
  \A i \in Calls :
    Wrapped(i) =>
      /\ inv[i].pc \in {"fetching", "settled"} => inv[i].origCalls = 0
      /\ inv[i].origCalls >= 1 =>
           /\ inv[i].awaited
           /\ inv[i].pushes >= 1
           /\ inv[i].pushesDone = inv[i].pushes

\* an invocation through the wrapper whose push request failed has called the original
C1_Witness ==
  \E i \in Calls :
    Done(i) /\ Wrapped(i) /\ inv[i].requests = 1 /\ inv[i].rejected /\ inv[i].origCalls = 1

\* C2: a rejected push request never blocks or fails the submission: the
\* invocation's continuation is queued or has run, no second request was
\* sent, and once the invocation is over the original was called exactly once
\* with the invocation's arguments and its result was returned unchanged.
C2_RejectedPushStillSubmits ==
  \A i \in Calls :
    inv[i].rejected =>
      /\ inv[i].pc \in {"settled", "done"}
      /\ inv[i].pc = "settled" => Includes(microQ, i)
      /\ inv[i].requests = 1
      /\ i \notin net
      /\ Done(i) =>
           /\ inv[i].origCalls = 1
           /\ inv[i].origArgs = inv[i].args
           /\ inv[i].ret = inv[i].origRet

\* a finished invocation whose push request was rejected
C2_Witness ==
  \E i \in Calls :
    /\ inv[i].rejected /\ Done(i) /\ inv[i].origCalls = 1
    /\ inv[i].origArgs \in QueueArgs /\ inv[i].ret \in QueueResults

\* C3: pushActiveKeyToServer sends no request when the set is empty, the
\* active name is empty or the active name is no entry of the set, and
\* otherwise sends exactly one POST to /fal-api/set-key whose body pairs the
\* active name with the secret stored under it.
C3_PushRequests ==
  last.pushed =>
    IF Keys = <<>> \/ Active = "" \/ ~HasOwn(Keys, Active)
    THEN last.sent = <<>>
    ELSE last.sent = <<[url |-> "/fal-api/set-key", method |-> "POST",
                        body |-> [key |-> Keys[OwnIndex(Keys, Active)].val,
                                  name |-> Active]]>>

\* C4: removing entry n deletes n, leaves every other entry as it was, and
\* clears the active name exactly when it was n.
C4_Remove ==
  [][last'.op = "remove" =>
       LET n == last'.n
           before == loadKeys(localStorage)
           after == loadKeys(localStorage')
       IN /\ ~HasOwn(after, n)
          /\ \A m \in AllNames \ {n} :
               /\ HasOwn(after, m) = HasOwn(before, m)
               /\ HasOwn(before, m) =>
                    after[OwnIndex(after, m)].val = before[OwnIndex(before, m)].val
          /\ Len(after) = Len(before) - 1
          /\ getActiveKeyName(localStorage') =
               IF getActiveKeyName(localStorage) = n THEN ""
               ELSE getActiveKeyName(localStorage)]_vars

\* the active entry was removed while another entry stays
C4_Witness ==
  /\ last.op = "remove"
  /\ ~localStorage[ACTIVE_STORAGE].null /\ Active = ""
  /\ Len(Keys) >= 1

\* C5: adding a non-empty trimmed name n with a non-empty trimmed secret k
\* leaves a set in which n maps to k and every other entry is as it was; the
\* count is kept when n existed and grows by one when it did not.
C5_Add ==
  [][last'.op = "add" =>
       LET n == last'.n
           k == last'.k
           before == loadKeys(localStorage)
           after == loadKeys(localStorage')
       IN /\ HasOwn(after, n)
          /\ after[OwnIndex(after, n)].val = k
          /\ \A m \in AllNames \ {n} :
               /\ HasOwn(after, m) = HasOwn(before, m)
               /\ HasOwn(before, m) =>
                    after[OwnIndex(after, m)].val = before[OwnIndex(before, m)].val
          /\ Len(after) = IF HasOwn(before, n) THEN Len(before) ELSE Len(before) + 1]_vars

\* C6: after an add or a remove the selector of the dialog's node offers the
\* names of the set, or the sentinel alone when the set is empty, and shows
\* the active name when it is an entry, else its first option.
C6_SelectorAfterMutation ==
  last.op \in {"add", "remove"} =>
    LET w == widget[dlg.node]
    IN /\ w.state = "combo"
       /\ w.options = IF Len(Keys) = 0 THEN <<"(no keys)">>
                      ELSE [i \in 1..Len(Keys) |-> Keys[i].name]
       /\ w.value = IF HasOwn(Keys, Active) THEN Active ELSE w.options[1]
       /\ Len(Keys) = 0 => w.value = "(no keys)"

\* the last entry was just removed
C6_Witness ==
  /\ last.op = "remove"
  /\ Len(Keys) = 0
  /\ widget[dlg.node].options = <<"(no keys)">>
  /\ widget[dlg.node].value = "(no keys)"

\* C7: however often setup() runs, app.queuePrompt wraps the original once:
\* an invocation starts at most one push and calls the original exactly once.
C7_HookedOnce ==
  /\ wrapDepth <= 1
  /\ wrapDepth = (IF hooked THEN 1 ELSE 0)
  /\ \A i \in Calls :
       /\ inv[i].pushes <= 1
       /\ inv[i].origCalls <= 1
       /\ Done(i) => inv[i].origCalls = 1

\* setup() ran more than once and a wrapped invocation finished
C7_Witness ==
  /\ setups >= 2
  /\ \E i \in Calls : Done(i) /\ Wrapped(i) /\ inv[i].pushes = 1 /\ inv[i].origCalls = 1

\* C8: an add whose name or secret is empty after trimming changes neither
\* the stored set nor the active name, and does not touch the selector.
C8_BlankAddRejected ==
  [][(/\ last'.op \in {"add", "addRejected"}
      /\ (last'.rawName \in Blank \/ last'.rawKey \in Blank))
     => /\ last'.op = "addRejected"
        /\ UNCHANGED <<localStorage, widget, dlg>>]_vars

\* a whitespace-only name was rejected while the set has entries
C8_Witness ==
  /\ last.op = "addRejected"
  /\ last.rawName = " "
  /\ last.rawKey \notin Blank
  /\ Len(Keys) >= 1

\* C9: an invocation made while another invocation's push is in flight, with
\* an active credential present, sends a request of its own; no request in
\* flight is dropped, and every such invocation calls the original exactly
\* once, after its own push completed.
C9_IndependentPushes ==
  \A j \in Calls :
    (inv[j].overlap /\ inv[j].hadKey /\ Wrapped(j)) =>
      \A i \in Calls :
        (inv[i].pc # "idle" /\ inv[i].hadKey /\ Wrapped(i)) =>
          /\ inv[i].requests = 1
          /\ inv[i].pc = "fetching" <=> i \in net
          /\ inv[i].pc # "done" => inv[i].origCalls = 0
          /\ Done(i) => inv[i].origCalls = 1 /\ inv[i].awaited

\* two overlapping invocations both finished, each with its own request
C9_Witness ==
  \E i, j \in Calls :
    /\ i # j /\ inv[j].overlap /\ inv[j].hadKey /\ inv[i].hadKey
    /\ Done(i) /\ Done(j)
    /\ inv[i].requests = 1 /\ inv[j].requests = 1

\* C10: after an add or a remove, when the selector of the dialog's node
\* shows the name of an existing entry, that name is the active name.
C10_SelectorShowsActive ==
  last.op \in {"add", "remove"} =>
    LET w == widget[dlg.node]
    IN HasOwn(Keys, w.value) => w.value = Active

====
